---- MODULE Spec2Model ----
(***************************************************************************)
(* A model of togethertxt.py: the textbook-corpus generation pipeline.     *)
(* Strings are sequences of one-character strings, so that splitting,      *)
(* stripping and difflib's similarity ratio are computed character by      *)
(* character, the way the Python code computes them.                       *)
(***************************************************************************)
EXTENDS Integers, Sequences, FiniteSets, TLC

(***************************************************************************)
(* Bounds of the model.  The source runs 3 grade levels, 7 subjects,       *)
(* num_topics = 5 and a semaphore of 25 slots; the model keeps the code    *)
(* and scales these four numbers down.                                     *)
(***************************************************************************)
NumGrades == 2
NumSubjects == 2
NumTopics == 2
SemaphoreSlots == 2
MaxLen == 6
MaxTail == 4

(***************************************************************************)
(* Program constants.                                                      *)
(***************************************************************************)
MAX_RETRIES == 5
ThresholdNum == 9
ThresholdDen == 10

GRADE_LEVELS == <<"7th grade", "high school", "college">>

GENERAL_TOPICS_keys ==
    <<"world history", "chemistry", "philosophy", "mathematics",
      "biology", "physics", "arts and creativity">>

\* the grade levels and subjects the loops of lines 122 and 107 run over
GradeLevels == SubSeq(GRADE_LEVELS, 1, NumGrades)

Subjects == SubSeq(GENERAL_TOPICS_keys, 1, NumSubjects)

(***************************************************************************)
(* str helpers: isdigit, strip, split, startswith, join.                   *)
(***************************************************************************)
Digits == {"0", "1", "2", "3", "4", "5", "6", "7", "8", "9"}
Whitespace == {" ", "\n", "\t"}

isdigit(c) == c \in Digits

RECURSIVE lstrip(_)
lstrip(s) ==
    IF s # <<>> /\ Head(s) \in Whitespace THEN lstrip(Tail(s)) ELSE s

RECURSIVE rstrip(_)
rstrip(s) ==
    IF s # <<>> /\ s[Len(s)] \in Whitespace
    THEN rstrip(SubSeq(s, 1, Len(s) - 1))
    ELSE s

strip(s) == rstrip(lstrip(s))

startswith(s, p) == Len(s) >= Len(p) /\ SubSeq(s, 1, Len(p)) = p

\* str.split(sep): the pieces between the non-overlapping occurrences of
\* sep, scanned from the left; always at least one piece.
RECURSIVE splitFrom(_, _, _, _)
splitFrom(s, sep, start, i) ==
    IF i + Len(sep) - 1 > Len(s)
    THEN <<SubSeq(s, start, Len(s))>>
    ELSE IF SubSeq(s, i, i + Len(sep) - 1) = sep
         THEN <<SubSeq(s, start, i - 1)>>
                  \o splitFrom(s, sep, i + Len(sep), i + Len(sep))
         ELSE splitFrom(s, sep, start, i + 1)

split(s, sep) == splitFrom(s, sep, 1, 1)

\* sep.join(parts)
RECURSIVE join(_, _)
join(sep, parts) ==
    IF parts = <<>> THEN <<>>
    ELSE IF Len(parts) = 1 THEN parts[1]
    ELSE parts[1] \o sep \o join(sep, Tail(parts))

(***************************************************************************)
(* difflib.SequenceMatcher(None, a, b).ratio() for strings shorter than    *)
(* 200 characters (no junk, autojunk inactive).                            *)
(***************************************************************************)
\* length of the common run of a[i..ahi] and b[j..bhi] starting at i and j
RECURSIVE runLen(_, _, _, _, _, _)
runLen(a, b, i, ahi, j, bhi) ==
    IF i <= ahi /\ j <= bhi /\ a[i] = b[j]
    THEN 1 + runLen(a, b, i + 1, ahi, j + 1, bhi)
    ELSE 0

\* find_longest_match: a longest block a[i..i+k-1] = b[j..j+k-1] inside
\* a[alo..ahi], b[blo..bhi]; of the longest, the one starting earliest in
\* a, and of those the one starting earliest in b (the code's two loops
\* replace the best block only by a strictly longer one).  <<alo, blo, 0>>
\* if nothing matches.
find_longest_match(a, b, alo, ahi, blo, bhi) ==
    LET cand == {<<i, j, runLen(a, b, i, ahi, j, bhi)>> :
                     i \in alo..ahi, j \in blo..bhi}
        sizes == {c[3] : c \in cand}
        bestsize == CHOOSE k \in sizes : \A h \in sizes : h <= k
        best == {c \in cand : c[3] = bestsize}
        besti == CHOOSE i \in {c[1] : c \in best} :
                     \A c \in best : i <= c[1]
        bestj == CHOOSE j \in {c[2] : c \in {d \in best : d[1] = besti}} :
                     \A c \in {d \in best : d[1] = besti} : j <= c[2]
    IN  IF cand = {} \/ bestsize = 0 THEN <<alo, blo, 0>>
        ELSE <<besti, bestj, bestsize>>

\* get_matching_blocks, summed: the block found, then the pieces to its
\* left and to its right, recursively.
RECURSIVE matches(_, _, _, _, _, _)
matches(a, b, alo, ahi, blo, bhi) ==
    LET m == find_longest_match(a, b, alo, ahi, blo, bhi)
        i == m[1]
        j == m[2]
        k == m[3]
    IN  IF k = 0 THEN 0
        ELSE k
             + (IF alo < i /\ blo < j
                THEN matches(a, b, alo, i - 1, blo, j - 1) ELSE 0)
             + (IF i + k <= ahi /\ j + k <= bhi
                THEN matches(a, b, i + k, ahi, j + k, bhi) ELSE 0)

\* ratio() = 2.0 * matches / (len(a) + len(b)), 1.0 for two empty strings;
\* ratio >= 0.9 is compared in integers.
is_similar(a, b) ==
    LET total == Len(a) + Len(b)
    IN  IF total = 0 THEN TRUE
        ELSE 2 * matches(a, b, 1, Len(a), 1, Len(b)) * ThresholdDen
                 >= ThresholdNum * total

(***************************************************************************)
(* The stubbed text-generation service: the raw texts it may return.       *)
(* TopicX and TopicY are a pair on which difflib's ratio depends on the    *)
(* argument order: ratio(TopicX, TopicY) = 0.9, ratio(TopicY, TopicX) = 0.5*)
(***************************************************************************)
TopicX == <<"a", "a", "a", "a", "a", "b", "a", "a", "a", "a">>
TopicY == <<"b", "a", "a", "a", "a", "a", "a", "a", "a", "a">>
TopicFoo == <<"F", "o", "o">>
TopicBar == <<"B", "a", "r">>

NL == <<"\n">>
Numbered(n, topic) == <<n, ".", " ">> \o topic

\* "1. aaaaabaaaa\n2. Bar"
RespTwo == Numbered("1", TopicX) \o NL \o Numbered("2", TopicBar)
\* "1. aaaaabaaaa\nNotes\n2. baaaaaaaaa\n3. Foo \n"
RespMany ==
    Numbered("1", TopicX) \o NL \o <<"N", "o", "t", "e", "s">> \o NL
        \o Numbered("2", TopicY) \o NL \o Numbered("3", TopicFoo) \o <<" ">> \o NL
\* "1. baaaaaaaaa\n2. baaaaaaaaa"
RespDup == Numbered("1", TopicY) \o NL \o Numbered("2", TopicY)
\* " None."
RespNone == <<" ", "N", "o", "n", "e", ".">>

TopicResponses == {RespTwo, RespMany, RespDup, RespNone}

\* An entry prompt is answered by a text that depends on the topic only:
\* "Sure:\n<topic>!" for the long topics, " <topic>?\n" for the short ones.
EntryResponseFor(topic) ==
    IF Len(topic) > 3
    THEN <<"S", "u", "r", "e", ":", "\n">> \o topic \o <<"!">>
    ELSE <<" ">> \o topic \o <<"?", "\n">>

(***************************************************************************)
(* make_api_request: the first choice's text, stripped.                    *)
(***************************************************************************)
make_api_request(raw) == strip(raw)

(***************************************************************************)
(* generate_topic_list_async, its pure parts.                              *)
(***************************************************************************)
Last(s) == s[Len(s)]

\* topic.strip().split('. ')[-1]
StripNumbering(line) == Last(split(strip(line), <<".", " ">>))

\* if topic and topic[0].isdigit()
KeepLine(line) == line # <<>> /\ isdigit(line[1])

\* [... for topic in topics_text.split('\n') if ...]
ParseTopics(topics_text) ==
    LET kept == SelectSeq(split(topics_text, NL), KeepLine)
    IN  [i \in 1..Len(kept) |-> StripNumbering(kept[i])]

\* the check run against the latest accepted topic only
IsDuplicate_LastOnly(topic, all) ==
    all # <<>> /\ is_similar(topic, all[Len(all)])

\* any(is_similar(topic, existing_topic) for existing_topic in ALL_TOPICS)
IsDuplicate(topic, all) == \E i \in 1..Len(all) : is_similar(topic, all[i])

\* the topic inserted at the front instead of appended
AcceptInto_Front(list, topic) == <<topic>> \o list

\* unique_topics.append(topic); ALL_TOPICS.append(topic)
AcceptInto(list, topic) == Append(list, topic)

\* the for loop checking a candidate against the list of this call only
RECURSIVE Dedup_PerCall(_, _, _)
Dedup_PerCall(topics, unique, all) ==
    IF topics = <<>> THEN <<unique, all>>
    ELSE IF ~IsDuplicate(Head(topics), unique)
         THEN Dedup_PerCall(Tail(topics), AcceptInto(unique, Head(topics)),
                            AcceptInto(all, Head(topics)))
         ELSE Dedup_PerCall(Tail(topics), unique, all)

\* the for loop over topics: <<unique_topics, ALL_TOPICS>> after it
RECURSIVE Dedup(_, _, _)
Dedup(topics, unique, all) ==
    IF topics = <<>> THEN <<unique, all>>
    ELSE IF ~IsDuplicate(Head(topics), all)
         THEN Dedup(Tail(topics), AcceptInto(unique, Head(topics)),
                    AcceptInto(all, Head(topics)))
         ELSE Dedup(Tail(topics), unique, all)

\* the loop without its retry bound
WhileCond_NoRetryBound(unique, n, num_topics) == Len(unique) < num_topics

\* the loop giving up one attempt early
WhileCond_OneShort(unique, n, num_topics) ==
    Len(unique) < num_topics /\ n < MAX_RETRIES - 1

\* the loop without its early stop
WhileCond_NoEarlyStop(unique, n, num_topics) == n < MAX_RETRIES

\* while len(unique_topics) < num_topics and retries < MAX_RETRIES
WhileCond(unique, n, num_topics) ==
    Len(unique) < num_topics /\ n < MAX_RETRIES

(***************************************************************************)
(* generate_entry_async, its pure parts.                                   *)
(***************************************************************************)
\* the cleanup without its final strip
CleanEntry_NoStrip(entry) ==
    LET entry_lines == split(entry, NL)
    IN  IF startswith(strip(entry_lines[1]), <<"S", "u", "r", "e">>)
        THEN join(NL, Tail(entry_lines))
        ELSE entry

\* lines 91-95
CleanEntry(entry) ==
    LET entry_lines == split(entry, NL)
        kept == IF startswith(strip(entry_lines[1]), <<"S", "u", "r", "e">>)
                THEN join(NL, Tail(entry_lines))
                ELSE entry
    IN  strip(kept)

\* no gate at all
CanAcquire_NoGate(value) == TRUE

\* async with SEMAPHORE: a slot is free
CanAcquire(value) == value > 0

(***************************************************************************)
(* generate_textbook_for_grade / generate_textbooks_async, pure parts.     *)
(***************************************************************************)
DictSet(d, k, v) == [y \in DOMAIN d \cup {k} |-> IF y = k THEN v ELSE d[y]]

EmptyDict == [y \in {} |-> <<>>]

\* for topic, content in entries_for_grade: textbook[topic] = content
RECURSIVE BuildTextbook(_, _)
BuildTextbook(pairs, d) ==
    IF pairs = <<>> THEN d
    ELSE BuildTextbook(Tail(pairs), DictSet(d, Head(pairs)[1], Head(pairs)[2]))

\* the key without the grade level
TextbookKey_NoGrade(grade_level) == <<"", " Textbook">>

\* f"{grade_level} Textbook"
TextbookKey(grade_level) == <<grade_level, " Textbook">>

\* a task that has not returned has no (topic, entry) pair yet
NoEntry == << <<>>, <<>> >>

\* results collected as the tasks complete and paired with the topics in
\* launch order
Gathered_AsCompleted(results, order) ==
    [k \in 1..Len(results) |-> <<results[k][1], results[order[k]][2]>>]

\* line 112: asyncio.gather returns the results in the order of the
\* awaitables, whatever the order in which they completed
Gathered(results, order) == results

\* a wait that returns with the first task that returned
AllReturned_FirstDone(ts) == \E i \in 1..Len(ts) : ts[i] = "done"

\* gather as with return_exceptions=True: failures count as results
AllReturned_Settled(ts) == \A i \in 1..Len(ts) : ts[i] \in {"done", "failed"}

\* await asyncio.gather(...) returns once every task has returned
AllReturned(ts) == \A i \in 1..Len(ts) : ts[i] = "done"

\* ... and raises as soon as one task has raised
SomeRaised(ts) == \E i \in 1..Len(ts) : ts[i] = "failed"

(***************************************************************************)
(* State.                                                                  *)
(***************************************************************************)
VARIABLES
    pc,                   \* where the main coroutine is
    grade,                \* index into GradeLevels of the for loop, line 122
    subject,              \* index into Subjects of the for loop, line 107
    retries,              \* line 55
    unique_topics,        \* line 56
    topics,               \* line 64: the candidates of the latest response
    ALL_TOPICS,           \* line 37
    all_topics_for_grade, \* line 105
    tasks,                \* the gathered entry tasks: their positions
    entries,              \* what each gathered task returned
    semaphore,            \* SEMAPHORE's free slots
    all_textbooks,        \* line 120
    file,                 \* all_textbooks.json: the sequence of writes
    stdout,               \* what was printed: warnings and the error message
    calls,                \* client calls issued by the current invocation
    all_at_start,         \* ALL_TOPICS when the current invocation started
    only_dups,            \* no response of this invocation had a new topic
    completion_order,     \* the gathered tasks in the order they returned
    topics_returned,      \* per grade level, the result lists returned
    call_failed,          \* some client call of the run has failed
    input,                \* the text a pure function is applied to
    output                \* what it returned

vars == <<pc, grade, subject, retries, unique_topics, topics, ALL_TOPICS,
          all_topics_for_grade, tasks, entries, semaphore, all_textbooks,
          file, stdout, calls, all_at_start, only_dups, topics_returned,
          call_failed, completion_order, input, output>>

topicVars == <<retries, unique_topics, topics, calls, all_at_start, only_dups>>
entryVars == <<tasks, entries, semaphore, completion_order>>
pureVars == <<input, output>>
gatherVars == <<tasks, entries, semaphore>>

InitRun ==
    /\ grade = 1
    /\ subject = 1
    /\ retries = 0
    /\ unique_topics = <<>>
    /\ topics = <<>>
    /\ ALL_TOPICS = <<>>
    /\ all_topics_for_grade = <<>>
    /\ tasks = <<>>
    /\ entries = <<>>
    /\ semaphore = SemaphoreSlots
    /\ all_textbooks = EmptyDict
    /\ file = <<>>
    /\ stdout = <<>>
    /\ calls = 0
    /\ all_at_start = <<>>
    /\ only_dups = TRUE
    /\ completion_order = <<>>
    /\ topics_returned = [g \in 1..Len(GradeLevels) |-> <<>>]
    /\ call_failed = FALSE

Init ==
    /\ pc = "grade_loop"
    /\ InitRun
    /\ input = <<>>
    /\ output = <<>>

(***************************************************************************)
(* generate_textbooks_async: the loop over the grade levels.               *)
(***************************************************************************)
\* line 122 -> lines 102-105: the next grade level starts
StartGrade ==
    /\ pc = "grade_loop"
    /\ grade <= Len(GradeLevels)
    /\ all_topics_for_grade' = <<>>
    /\ subject' = 1
    /\ completion_order' = <<>>
    /\ pc' = "subject_loop"
    /\ UNCHANGED <<grade, ALL_TOPICS, all_textbooks, file, stdout,
                   topics_returned, call_failed>>
    /\ UNCHANGED <<topicVars, gatherVars, pureVars>>

\* the write placed one grade level early
WriteCorpus_BeforeLast ==
    /\ pc = "grade_loop"
    /\ grade >= Len(GradeLevels)
    /\ file' = Append(file, all_textbooks)
    /\ completion_order' = <<>>
    /\ pc' = "done"
    /\ UNCHANGED <<grade, subject, ALL_TOPICS, all_topics_for_grade,
                   all_textbooks, stdout, topics_returned, call_failed>>
    /\ UNCHANGED <<topicVars, gatherVars, pureVars>>

\* lines 126-127: after the last grade level, the one write
WriteCorpus ==
    /\ pc = "grade_loop"
    /\ grade > Len(GradeLevels)
    /\ file' = Append(file, all_textbooks)
    /\ completion_order' = <<>>
    /\ pc' = "done"
    /\ UNCHANGED <<grade, subject, ALL_TOPICS, all_topics_for_grade,
                   all_textbooks, stdout, topics_returned, call_failed>>
    /\ UNCHANGED <<topicVars, gatherVars, pureVars>>

(***************************************************************************)
(* generate_topic_list_async, one invocation per subject.                  *)
(***************************************************************************)
\* line 108, lines 55-56
StartTopicList ==
    /\ pc = "subject_loop"
    /\ subject <= Len(Subjects)
    /\ retries' = 0
    /\ unique_topics' = <<>>
    /\ topics' = <<>>
    /\ calls' = 0
    /\ all_at_start' = ALL_TOPICS
    /\ only_dups' = TRUE
    /\ pc' = "while"
    /\ UNCHANGED <<grade, subject, ALL_TOPICS, all_topics_for_grade,
                   all_textbooks, file, stdout, topics_returned, call_failed>>
    /\ UNCHANGED <<entryVars, pureVars>>

\* lines 57-58: the loop goes on and the client is called
IssueTopicCall ==
    /\ pc = "while"
    /\ WhileCond(unique_topics, retries, NumTopics)
    /\ calls' = calls + 1
    /\ pc' = "topic_call"
    /\ UNCHANGED <<grade, subject, retries, unique_topics, topics, ALL_TOPICS,
                   all_topics_for_grade, all_textbooks, file, stdout,
                   all_at_start, only_dups, topics_returned, call_failed>>
    /\ UNCHANGED <<entryVars, pureVars>>

\* lines 58-72: the response arrives, is parsed and deduplicated
TopicResponse ==
    /\ pc = "topic_call"
    /\ \E raw \in TopicResponses :
          LET parsed == ParseTopics(make_api_request(raw))
              after == Dedup(parsed, unique_topics, ALL_TOPICS)
          IN  /\ topics' = parsed
              /\ unique_topics' = after[1]
              /\ ALL_TOPICS' = after[2]
              /\ only_dups' = (only_dups /\
                    \A i \in 1..Len(parsed) :
                        \E j \in 1..Len(ALL_TOPICS) :
                            is_similar(parsed[i], ALL_TOPICS[j]))
    /\ retries' = retries + 1
    /\ pc' = "while"
    /\ UNCHANGED <<grade, subject, all_topics_for_grade, all_textbooks,
                   file, stdout, calls, all_at_start, topics_returned,
                   call_failed>>
    /\ UNCHANGED <<entryVars, pureVars>>

\* the failed call caught inside the loop and counted as an attempt
TopicCallFails_Retried ==
    /\ pc = "topic_call"
    /\ call_failed' = TRUE
    /\ retries' = retries + 1
    /\ pc' = "while"
    /\ UNCHANGED <<grade, subject, unique_topics, topics, ALL_TOPICS,
                   all_topics_for_grade, all_textbooks, file, stdout, calls,
                   all_at_start, only_dups, topics_returned>>
    /\ UNCHANGED <<entryVars, pureVars>>

\* lines 33-34 under line 58: the call raises; nothing before line 133
\* catches it, the error is printed and the run is over
TopicCallFails ==
    /\ pc = "topic_call"
    /\ call_failed' = TRUE
    /\ stdout' = Append(stdout, "An error occurred")
    /\ pc' = "failed"
    /\ UNCHANGED <<grade, subject, ALL_TOPICS, all_topics_for_grade,
                   all_textbooks, file, topics_returned>>
    /\ UNCHANGED <<topicVars, entryVars, pureVars>>

\* lines 57, 74-77: the loop ends, the warning is printed on a shortfall
ReturnTopics ==
    /\ pc = "while"
    /\ ~WhileCond(unique_topics, retries, NumTopics)
    /\ stdout' = IF Len(unique_topics) < NumTopics
                 THEN Append(stdout, "Warning")
                 ELSE stdout
    /\ topics_returned' =
           [topics_returned EXCEPT ![grade] = @ \o unique_topics]
    /\ pc' = "returned"
    /\ UNCHANGED <<grade, subject, ALL_TOPICS, all_topics_for_grade,
                   all_textbooks, file, call_failed>>
    /\ UNCHANGED <<topicVars, entryVars, pureVars>>

\* line 109; the locals of the invocation are gone
ExtendTopics ==
    /\ pc = "returned"
    /\ all_topics_for_grade' = all_topics_for_grade \o unique_topics
    /\ subject' = subject + 1
    /\ retries' = 0
    /\ unique_topics' = <<>>
    /\ topics' = <<>>
    /\ calls' = 0
    /\ all_at_start' = <<>>
    /\ only_dups' = TRUE
    /\ pc' = "subject_loop"
    /\ UNCHANGED <<grade, ALL_TOPICS, all_textbooks, file, stdout,
                   topics_returned, call_failed>>
    /\ UNCHANGED <<entryVars, pureVars>>

(***************************************************************************)
(* The gathered entry generations of one grade level.                      *)
(***************************************************************************)
\* line 112: one task per topic
LaunchEntries ==
    /\ pc = "subject_loop"
    /\ subject > Len(Subjects)
    /\ tasks' = [i \in 1..Len(all_topics_for_grade) |-> "pending"]
    /\ entries' = [i \in 1..Len(all_topics_for_grade) |-> NoEntry]
    /\ pc' = "gather"
    /\ UNCHANGED <<grade, subject, ALL_TOPICS, all_topics_for_grade,
                   semaphore, all_textbooks, file, stdout, topics_returned,
                   call_failed, completion_order>>
    /\ UNCHANGED <<topicVars, pureVars>>

\* lines 80-88: a task takes a slot (in launch order) and calls the client
EntryAcquire(i) ==
    /\ pc = "gather"
    /\ tasks[i] = "pending"
    /\ \A j \in 1..(i - 1) : tasks[j] # "pending"
    /\ CanAcquire(semaphore)
    /\ semaphore' = semaphore - 1
    /\ tasks' = [tasks EXCEPT ![i] = "in_flight"]
    /\ UNCHANGED <<pc, grade, subject, ALL_TOPICS, all_topics_for_grade,
                   entries, all_textbooks, file, stdout, topics_returned,
                   call_failed, completion_order>>
    /\ UNCHANGED <<topicVars, pureVars>>

\* the task records the topic it wrote about as accepted
EntryResponse_AddsTopic(i) ==
    /\ pc = "gather"
    /\ tasks[i] = "in_flight"
    /\ tasks' = [tasks EXCEPT ![i] = "done"]
    /\ semaphore' = semaphore + 1
    /\ completion_order' = Append(completion_order, i)
    /\ LET topic == all_topics_for_grade[i]
           entry == make_api_request(EntryResponseFor(topic))
       IN  /\ entries' = [entries EXCEPT ![i] = <<topic, CleanEntry(entry)>>]
           /\ ALL_TOPICS' = Append(ALL_TOPICS, topic)
    /\ UNCHANGED <<pc, grade, subject, all_topics_for_grade,
                   all_textbooks, file, stdout, topics_returned, call_failed>>
    /\ UNCHANGED <<topicVars, pureVars>>

\* the response arrives and the task returns without leaving the gate
EntryResponse_KeepsSlot(i) ==
    /\ pc = "gather"
    /\ tasks[i] = "in_flight"
    /\ tasks' = [tasks EXCEPT ![i] = "done"]
    /\ completion_order' = Append(completion_order, i)
    /\ LET topic == all_topics_for_grade[i]
           entry == make_api_request(EntryResponseFor(topic))
       IN  entries' = [entries EXCEPT ![i] = <<topic, CleanEntry(entry)>>]
    /\ UNCHANGED <<pc, grade, subject, ALL_TOPICS, all_topics_for_grade,
                   semaphore, all_textbooks, file, stdout, topics_returned,
                   call_failed>>
    /\ UNCHANGED <<topicVars, pureVars>>

\* lines 88-99: the response arrives, is cleaned, the slot is released
EntryResponse(i) ==
    /\ pc = "gather"
    /\ tasks[i] = "in_flight"
    /\ tasks' = [tasks EXCEPT ![i] = "done"]
    /\ semaphore' = semaphore + 1
    /\ completion_order' = Append(completion_order, i)
    /\ LET topic == all_topics_for_grade[i]
           entry == make_api_request(EntryResponseFor(topic))
       IN  entries' = [entries EXCEPT ![i] = <<topic, CleanEntry(entry)>>]
    /\ UNCHANGED <<pc, grade, subject, ALL_TOPICS, all_topics_for_grade,
                   all_textbooks, file, stdout, topics_returned, call_failed>>
    /\ UNCHANGED <<topicVars, pureVars>>

\* the call raises and the task leaves without releasing its slot
EntryFails_KeepsSlot(i) ==
    /\ pc = "gather"
    /\ tasks[i] = "in_flight"
    /\ tasks' = [tasks EXCEPT ![i] = "failed"]
    /\ call_failed' = TRUE
    /\ UNCHANGED <<pc, grade, subject, ALL_TOPICS, all_topics_for_grade,
                   entries, semaphore, all_textbooks, file, stdout,
                   topics_returned, completion_order>>
    /\ UNCHANGED <<topicVars, pureVars>>

\* lines 33-34 under line 88: the call raises, line 80 releases the slot
EntryFails(i) ==
    /\ pc = "gather"
    /\ tasks[i] = "in_flight"
    /\ semaphore' = semaphore + 1
    /\ tasks' = [tasks EXCEPT ![i] = "failed"]
    /\ call_failed' = TRUE
    /\ UNCHANGED <<pc, grade, subject, ALL_TOPICS, all_topics_for_grade,
                   entries, all_textbooks, file, stdout, topics_returned,
                   completion_order>>
    /\ UNCHANGED <<topicVars, pureVars>>

\* lines 112-117, 124: every task returned; the textbook is assembled
GatherDone ==
    /\ pc = "gather"
    /\ AllReturned(tasks)
    /\ all_textbooks' = DictSet(all_textbooks, TextbookKey(GradeLevels[grade]),
                                BuildTextbook(Gathered(entries,
                                                       completion_order),
                                              EmptyDict))
    /\ grade' = grade + 1
    /\ pc' = "grade_loop"
    /\ UNCHANGED <<subject, ALL_TOPICS, all_topics_for_grade, file, stdout,
                   topics_returned, call_failed>>
    /\ UNCHANGED <<topicVars, entryVars, pureVars>>

\* line 112 raises the first failure; lines 132-134: asyncio.run cancels
\* the tasks still running and the error is printed
GatherRaises ==
    /\ pc = "gather"
    /\ SomeRaised(tasks)
    /\ tasks' = [i \in 1..Len(tasks) |->
                    IF tasks[i] \in {"pending", "in_flight"}
                    THEN "cancelled" ELSE tasks[i]]
    /\ semaphore' = semaphore
                    + Cardinality({i \in 1..Len(tasks) : tasks[i] = "in_flight"})
    /\ stdout' = Append(stdout, "An error occurred")
    /\ pc' = "failed"
    /\ UNCHANGED <<grade, subject, ALL_TOPICS, all_topics_for_grade,
                   entries, all_textbooks, file, topics_returned, call_failed,
                   completion_order>>
    /\ UNCHANGED <<topicVars, pureVars>>

Next ==
    \/ StartGrade
    \/ WriteCorpus
    \/ StartTopicList
    \/ IssueTopicCall
    \/ TopicResponse
    \/ TopicCallFails
    \/ ReturnTopics
    \/ ExtendTopics
    \/ LaunchEntries
    \/ \E i \in 1..Len(tasks) : EntryAcquire(i)
    \/ \E i \in 1..Len(tasks) : EntryResponse(i)
    \/ \E i \in 1..Len(tasks) : EntryFails(i)
    \/ GatherDone
    \/ GatherRaises

Spec == Init /\ [][Next]_vars

(***************************************************************************)
(* The same program under the scheduling of asyncio.run (line 132): the    *)
(* event loop runs every coroutine that is ready, so the main coroutine    *)
(* takes its next step and the first waiter of SEMAPHORE enters once a     *)
(* slot is free; every client call returns or raises (line 32 gives the    *)
(* client a timeout, so a call ends with a response or an exception).      *)
(***************************************************************************)
MainStep ==
    \/ StartGrade
    \/ WriteCorpus
    \/ StartTopicList
    \/ IssueTopicCall
    \/ ReturnTopics
    \/ ExtendTopics
    \/ LaunchEntries
    \/ GatherDone
    \/ GatherRaises

TopicCallEnds == TopicResponse \/ TopicCallFails

WaiterEnters == \E i \in 1..Len(tasks) : EntryAcquire(i)

EntryCallEnds == \E i \in 1..Len(tasks) : EntryFails(i) \/ EntryResponse(i)

Fairness ==
    /\ WF_vars(MainStep)
    /\ WF_vars(TopicCallEnds)
    /\ WF_vars(WaiterEnters)
    /\ WF_vars(EntryCallEnds)

SpecLive == Init /\ [][Next]_vars /\ Fairness

(***************************************************************************)
(* The response parser as a pure function: every text of at most MaxLen    *)
(* characters over ParseAlphabet is parsed.                                *)
(***************************************************************************)
ParseAlphabet == {"1", ".", " ", "a", "\n"}

RECURSIVE TextsOfLen(_)
TextsOfLen(n) ==
    IF n = 0 THEN {<<>>}
    ELSE {Append(t, c) : t \in TextsOfLen(n - 1), c \in ParseAlphabet}

ParseInputs == UNION {TextsOfLen(n) : n \in 0..MaxLen}

InitParse ==
    /\ pc = "parse"
    /\ InitRun
    /\ input \in ParseInputs
    /\ output = <<>>

ApplyParse ==
    /\ pc = "parse"
    /\ output' = ParseTopics(input)
    /\ pc' = "parsed"
    /\ UNCHANGED <<grade, subject, ALL_TOPICS, all_topics_for_grade,
                   all_textbooks, file, stdout, topics_returned, call_failed,
                   input>>
    /\ UNCHANGED <<topicVars, entryVars>>

NextParse == ApplyParse

SpecParse == InitParse /\ [][NextParse]_vars

(***************************************************************************)
(* The entry cleanup as a pure function: generate_entry_async's lines      *)
(* 88-99 applied to a topic and to every raw response made of one of the   *)
(* CleanHeads followed by at most MaxTail characters of CleanAlphabet.     *)
(***************************************************************************)
CleanAlphabet == {"S", " ", "\n", "a"}

CleanHeads ==
    {<<>>, <<"S", "u", "r", "e">>, <<" ", "S", "u", "r", "e">>,
     <<"S", "u", "r">>, <<"a", "\n", "S", "u", "r", "e">>}

RECURSIVE TailsOfLen(_)
TailsOfLen(n) ==
    IF n = 0 THEN {<<>>}
    ELSE {Append(t, c) : t \in TailsOfLen(n - 1), c \in CleanAlphabet}

CleanInputs ==
    {h \o t : h \in CleanHeads, t \in UNION {TailsOfLen(n) : n \in 0..MaxTail}}

InitClean ==
    /\ pc = "clean"
    /\ InitRun
    /\ input \in {TopicFoo, TopicX} \X CleanInputs
    /\ output = <<>>

\* lines 88-99 for the topic input[1] and the raw response input[2]
ApplyClean ==
    /\ pc = "clean"
    /\ output' = <<input[1], CleanEntry(make_api_request(input[2]))>>
    /\ pc' = "cleaned"
    /\ UNCHANGED <<grade, subject, ALL_TOPICS, all_topics_for_grade,
                   all_textbooks, file, stdout, topics_returned, call_failed,
                   input>>
    /\ UNCHANGED <<topicVars, entryVars>>

NextClean == ApplyClean

SpecClean == InitClean /\ [][NextClean]_vars

(***************************************************************************)
(* The claims.                                                             *)
(***************************************************************************)
Range(seq) == {seq[i] : i \in 1..Len(seq)}

InFlight == {i \in 1..Len(tasks) : tasks[i] = "in_flight"}

\* C1: the list generate_topic_list_async returns has at most num_topics
\* elements.
C1_LengthAtMostTarget ==
    pc = "returned" => Len(unique_topics) <= NumTopics

\* C2: in every state, at most SemaphoreSlots entry-generation calls have
\* been issued and have not completed.
C2_InFlightBound == Cardinality(InFlight) <= SemaphoreSlots

\* more tasks than slots, every slot taken, a task kept waiting
C2_Witness ==
    /\ Len(tasks) > SemaphoreSlots
    /\ Cardinality(InFlight) = SemaphoreSlots
    /\ \E i \in 1..Len(tasks) : tasks[i] = "pending"

\* C3: one invocation of generate_topic_list_async issues at most
\* MAX_RETRIES client calls, whatever the responses were.
C3_BoundedCalls == calls <= MAX_RETRIES

\* an invocation that accepted something, fell short and used every attempt
C3_Witness ==
    /\ pc = "returned"
    /\ calls = MAX_RETRIES
    /\ unique_topics # <<>>
    /\ ~only_dups

\* C4: with num_topics > 0, an invocation whose responses all held only
\* near-duplicates of accepted topics (or no candidates) returns the empty
\* list after exactly MAX_RETRIES calls, with the warning printed last, no
\* error, and ALL_TOPICS as it was when the invocation started.
C4_Shortfall ==
    (pc = "returned" /\ only_dups /\ NumTopics > 0) =>
        /\ unique_topics = <<>>
        /\ calls = MAX_RETRIES
        /\ stdout # <<>>
        /\ Last(stdout) = "Warning"
        /\ ~call_failed
        /\ ALL_TOPICS = all_at_start

\* such an invocation whose last response did hold candidates
C4_Witness ==
    /\ pc = "returned"
    /\ only_dups
    /\ all_at_start # <<>>
    /\ topics # <<>>

\* C5 as stated: no two entries of ALL_TOPICS are near-duplicates of each
\* other under is_similar, whichever of the two is the first argument.
C5_NoSimilarPair ==
    \A i, j \in 1..Len(ALL_TOPICS) :
        i # j => ~is_similar(ALL_TOPICS[i], ALL_TOPICS[j])

\* C5 as amended: no entry of ALL_TOPICS is similar, as the candidate of
\* is_similar(candidate, accepted), to an entry accepted before it; no two
\* entries are equal strings; no result list holds a string twice.
C5_NoDuplicateOfEarlier ==
    /\ \A i, j \in 1..Len(ALL_TOPICS) :
          i < j => /\ ~is_similar(ALL_TOPICS[j], ALL_TOPICS[i])
                   /\ ALL_TOPICS[i] # ALL_TOPICS[j]
    /\ \A i, j \in 1..Len(unique_topics) :
          i < j => unique_topics[i] # unique_topics[j]

\* a response held the same candidate twice and it was accepted once
C5_Witness ==
    /\ pc = "while"
    /\ Len(topics) >= 2
    /\ topics[1] = topics[2]
    /\ topics[1] \in Range(unique_topics)

\* C6: every step leaves the topics already in ALL_TOPICS in place and
\* unchanged; topics are only appended.
C6_OnlyAppended ==
    [][/\ Len(ALL_TOPICS') >= Len(ALL_TOPICS)
       /\ SubSeq(ALL_TOPICS', 1, Len(ALL_TOPICS)) = ALL_TOPICS]_vars

\* entry generation of a later grade level runs over a set that grew in
\* several invocations
C6_Witness ==
    /\ pc = "gather"
    /\ grade > 1
    /\ InFlight # {}
    /\ Len(ALL_TOPICS) >= 3

\* C7: after a failed client call the corpus file is never written and the
\* run can only end in the failed state, where the error has been printed;
\* a written file implies that every grade level completed with no failed
\* call.
C7_NoWriteAfterFailure ==
    /\ call_failed => (file = <<>> /\ pc \in {"gather", "failed"})
    /\ pc = "failed" =>
          /\ call_failed
          /\ stdout # <<>>
          /\ Last(stdout) = "An error occurred"
    /\ file # <<>> =>
          /\ ~call_failed
          /\ pc = "done"
          /\ grade > Len(GradeLevels)

\* a call failed after an earlier grade level's textbook was assembled
C7_Witness ==
    /\ pc = "failed"
    /\ DOMAIN all_textbooks # {}
    /\ file = <<>>

\* C8: after a run without failure the written corpus has one key per
\* grade level, and the keys of each textbook are the topics the
\* invocations of that grade level returned, one key per topic.
C8_CorpusKeys ==
    pc = "done" =>
        /\ Len(file) = 1
        /\ DOMAIN file[1] =
               {<<GradeLevels[g], " Textbook">> : g \in 1..Len(GradeLevels)}
        /\ Cardinality(DOMAIN file[1]) = Len(GradeLevels)
        /\ \A g \in 1..Len(GradeLevels) :
              LET textbook == file[1][<<GradeLevels[g], " Textbook">>]
              IN  /\ DOMAIN textbook = Range(topics_returned[g])
                  /\ Cardinality(DOMAIN textbook) = Len(topics_returned[g])

\* a finished run in which every grade level got topics
C8_Witness ==
    /\ pc = "done"
    /\ \A g \in 1..Len(GradeLevels) : topics_returned[g] # <<>>

\* the first response held num_topics candidates, none a duplicate of an
\* accepted topic or of an earlier candidate
FirstYieldsTarget ==
    /\ retries = 1
    /\ Len(topics) = NumTopics
    /\ \A i \in 1..Len(topics) :
          \A j \in 1..Len(all_at_start) :
              ~is_similar(topics[i], all_at_start[j])
    /\ \A i, j \in 1..Len(topics) :
          i < j => ~is_similar(topics[j], topics[i])

\* C9: no client call is outstanding once the result list has reached
\* num_topics; when the first response yields num_topics new candidates
\* the result is exactly those, after exactly one call.
C9_StopsAtTarget ==
    /\ pc = "topic_call" => Len(unique_topics) < NumTopics
    /\ (pc \in {"while", "returned"} /\ FirstYieldsTarget) =>
          (unique_topics = topics /\ calls = 1)

\* the first response was enough and the invocation returned
C9_Witness ==
    /\ pc = "returned"
    /\ FirstYieldsTarget
    /\ calls = 1
    /\ Len(unique_topics) = NumTopics

\* the number of digits a line starts with
RECURSIVE LeadingDigits(_)
LeadingDigits(line) ==
    IF line # <<>> /\ isdigit(Head(line))
    THEN 1 + LeadingDigits(Tail(line))
    ELSE 0

\* a trimmed line starts with a numbering token: digits, then ". "
HasNumbering(line) ==
    LET k == LeadingDigits(line)
    IN  k >= 1 /\ Len(line) >= k + 2 /\ line[k + 1] = "." /\ line[k + 2] = " "

\* such a line without the token, the rest untouched
WithoutNumbering(line) ==
    SubSeq(line, LeadingDigits(line) + 3, Len(line))

StartsWithDigit(line) == line # <<>> /\ line[1] \in Digits

\* C10: the candidates parsed from a response are, in order, one for each
\* line starting with a digit; the candidate of a line carrying a leading
\* "N. " token is that line, trimmed, without the token, the rest of the
\* line kept also when it contains ". ".
C10_ParseKeepsRest ==
    pc = "parsed" =>
        LET kept == SelectSeq(split(input, NL), StartsWithDigit)
        IN  /\ Len(output) = Len(kept)
            /\ \A i \in 1..Len(kept) :
                  HasNumbering(strip(kept[i])) =>
                      output[i] = WithoutNumbering(strip(kept[i]))

\* the text after the first newline of t, nothing if t has one line
AfterFirstLine(t) ==
    IF \A i \in 1..Len(t) : t[i] # "\n" THEN <<>>
    ELSE LET first == CHOOSE i \in 1..Len(t) :
                          t[i] = "\n" /\ \A h \in 1..(i - 1) : t[h] # "\n"
         IN  SubSeq(t, first + 1, Len(t))

SureToken == <<"S", "u", "r", "e">>

\* C11: when the trimmed raw response starts with "Sure", the cleaned
\* content is what follows its first line, trimmed; otherwise it is the
\* trimmed raw response; the pair returned carries the topic.
C11_Cleanup ==
    pc = "cleaned" =>
        LET trimmed == strip(input[2])
        IN  /\ output[1] = input[1]
            /\ startswith(trimmed, SureToken) =>
                  output[2] = strip(AfterFirstLine(trimmed))
            /\ ~startswith(trimmed, SureToken) => output[2] = trimmed

\* a preamble line was dropped and content was left
C11_Witness ==
    /\ pc = "cleaned"
    /\ startswith(strip(input[2]), SureToken)
    /\ output[2] # <<>>
    /\ Len(output[2]) + 5 < Len(input[2])

TopicInProgress == pc \in {"while", "topic_call"}

EntryUnfinished ==
    {i \in 1..Len(tasks) : tasks[i] \in {"pending", "in_flight"}}

\* C12: while an invocation of generate_topic_list_async is in progress,
\* every earlier invocation of the grade level has returned and its result
\* has been collected, and no entry-generation task of any grade level is
\* launched and unfinished.
C12_PhaseSeparation ==
    TopicInProgress =>
        /\ EntryUnfinished = {}
        /\ all_topics_for_grade = topics_returned[grade]
        /\ ALL_TOPICS = all_at_start \o unique_topics

\* the second subject of a later grade level, after an earlier batch ran
C12_Witness ==
    /\ pc = "topic_call"
    /\ grade > 1
    /\ subject > 1
    /\ tasks # <<>>
    /\ all_topics_for_grade # <<>>

FailedTasks == {i \in 1..Len(tasks) : tasks[i] = "failed"}

\* C13 as stated: once a task of the batch has failed, no task of the
\* batch is admitted or issues a call, no textbook is assembled for the
\* grade level and no later grade level is started.
C13_NoAdmissionAfterFailure ==
    [][FailedTasks # {} =>
          /\ {i \in 1..Len(tasks) : tasks'[i] = "in_flight"} \subseteq InFlight
          /\ all_textbooks' = all_textbooks
          /\ grade' = grade]_vars

\* C13 as amended: once a task of the batch has failed, no textbook is
\* assembled for the grade level, no later grade level is started and the
\* run can only go on to the failed state; there no task of the batch is
\* pending or in flight any more.  Until the failure has reached the main
\* coroutine a pending task may still take the slot the failed one released
\* and issue its call.
C13_FailureAbortsBatch ==
    /\ [][FailedTasks # {} =>
             /\ all_textbooks' = all_textbooks
             /\ grade' = grade
             /\ pc' \in {"gather", "failed"}]_vars
    /\ [](pc = "failed" => EntryUnfinished = {})

\* a batch failed with one task done, one failed and one cancelled; its
\* grade level has no textbook
C13_Witness ==
    /\ pc = "failed"
    /\ FailedTasks # {}
    /\ \E i \in 1..Len(tasks) : tasks[i] = "done"
    /\ \E i \in 1..Len(tasks) : tasks[i] = "cancelled"
    /\ <<GradeLevels[grade], " Textbook">> \notin DOMAIN all_textbooks

\* the run failed in a client call of generate_topic_list_async
TopicCallFailed == pc = "failed" /\ FailedTasks = {}

\* C14 as stated: a failed client call inside generate_topic_list_async
\* ends the operation only when MAX_RETRIES attempts have been made;
\* before that the loop issues a further attempt.
C14_TopicFailureRetried ==
    TopicCallFailed => calls >= MAX_RETRIES

\* C14 as amended: a failed client call inside generate_topic_list_async
\* is not retried: the step in which it fails ends the run in the failed
\* state with no further attempt counted or issued, nothing follows the
\* failed state, and a further attempt is only ever issued from the loop
\* test of a run in which no call has failed.
C14_TopicFailureFatal ==
    /\ [][(pc = "topic_call" /\ call_failed') =>
             /\ pc' = "failed"
             /\ calls' = calls
             /\ retries' = retries
             /\ unique_topics' = unique_topics]_vars
    /\ [][pc # "failed"]_vars
    /\ [][calls' = calls + 1 => (pc = "while" /\ ~call_failed)]_vars

\* the second attempt of an invocation failed with attempts left
C14_Witness ==
    /\ TopicCallFailed
    /\ retries >= 1
    /\ calls = retries + 1
    /\ calls < MAX_RETRIES

\* what the client answers for a topic, cleaned as lines 88-99 clean it
ContentFor(topic) == CleanEntry(make_api_request(EntryResponseFor(topic)))

\* the textbook a topic list determines: each topic with its content
TextbookOf(topic_list) == [t \in Range(topic_list) |-> ContentFor(t)]

\* the grade levels whose textbook has been assembled
Assembled == {g \in 1..Len(GradeLevels) :
                 TextbookKey(GradeLevels[g]) \in DOMAIN all_textbooks}

\* the tasks of the latest batch returned in an order other than the
\* order in which they were launched
OutOfLaunchOrder ==
    \E k \in 1..(Len(completion_order) - 1) :
        completion_order[k] > completion_order[k + 1]

\* C15: with a client whose response depends only on the topic, the
\* textbook assembled after the join is determined by the topic list of
\* the grade level alone: it maps each topic of the list to the content
\* of that topic, whatever the order in which the tasks were admitted and
\* completed.
C15_TextbookDeterminism ==
    \A g \in Assembled :
        all_textbooks[TextbookKey(GradeLevels[g])]
            = TextbookOf(topics_returned[g])

\* a textbook of three topics or more was assembled from tasks that
\* completed out of launch order
C15_Witness ==
    /\ pc = "grade_loop"
    /\ Assembled # {}
    /\ Len(completion_order) >= 3
    /\ OutOfLaunchOrder

\* every task of the batch has issued its client call
EveryCallIssued ==
    /\ pc = "gather"
    /\ \A i \in 1..Len(tasks) : tasks[i] \in {"in_flight", "done", "failed"}

CorpusKeys == {TextbookKey(GradeLevels[g]) : g \in 1..Len(GradeLevels)}

\* C17: on a run in which no client call fails the corpus is written
\* exactly once: the run reaches the write, the file is never written
\* twice, the one write happens when every grade level's batch has been
\* joined and every textbook assembled and it stores them all; the grade
\* levels are taken one after another in configured order, the textbook of
\* a grade level being assembled before the next grade level starts.
C17_SingleFinalWrite ==
    /\ <>(Len(file) = 1 \/ call_failed)
    /\ [](Len(file) <= 1)
    /\ [][file' # file =>
             /\ grade > Len(GradeLevels)
             /\ Assembled = 1..Len(GradeLevels)
             /\ ~call_failed
             /\ AllReturned(tasks)
             /\ file' = <<all_textbooks>>
             /\ DOMAIN all_textbooks = CorpusKeys]_vars
    /\ [](pc \notin {"done", "failed"} =>
             Assembled = 1..(grade - 1))
    /\ [][grade' \in {grade, grade + 1}]_vars

\* the corpus with the textbook of every grade level has been written once
C17_Witness ==
    /\ pc = "done"
    /\ ~call_failed
    /\ Len(file) = 1
    /\ DOMAIN file[1] = CorpusKeys
    /\ \A k \in CorpusKeys : DOMAIN file[1][k] # {}

\* a step of an entry-generation task, or of the join of the batch
EntryStep == tasks' # tasks \/ entries' # entries \/ semaphore' # semaphore

\* an invocation of generate_topic_list_async is under way or has returned
\* its list to line 109
InTopicList == pc \in {"while", "topic_call", "returned"}

\* C18: no step of an entry-generation task changes ALL_TOPICS, and no
\* step taken while a batch is gathered does; ALL_TOPICS changes only in
\* the step of generate_topic_list_async that handles a response; and from
\* its start to its return an invocation has appended to ALL_TOPICS
\* exactly its result list, in result order.
C18_AcceptedSetFrame ==
    /\ [][(EntryStep \/ pc = "gather") => ALL_TOPICS' = ALL_TOPICS]_vars
    /\ [][ALL_TOPICS' # ALL_TOPICS =>
             (pc = "topic_call" /\ pc' = "while")]_vars
    /\ [](InTopicList => ALL_TOPICS = all_at_start \o unique_topics)

\* tasks of the second grade level have been admitted, have completed and
\* are waiting, with the topics of both grade levels accepted
C18_Witness ==
    /\ pc = "gather"
    /\ grade = 2
    /\ \E i \in 1..Len(tasks) : tasks[i] = "done"
    /\ \E i \in 1..Len(tasks) : tasks[i] = "in_flight"
    /\ ALL_TOPICS = topics_returned[1] \o topics_returned[2]
    /\ topics_returned[1] # <<>>
    /\ topics_returned[2] # <<>>

\* the textbook assembled for a grade level
TextbookAt(g) == all_textbooks[TextbookKey(GradeLevels[g])]

\* the topics returned for an earlier grade level, each with a topic
\* returned for a later one
AcrossGrades ==
    {p \in Range(ALL_TOPICS) \X Range(ALL_TOPICS) :
        \E g1, g2 \in 1..Len(GradeLevels) :
            /\ g1 < g2
            /\ p[1] \in Range(topics_returned[g1])
            /\ p[2] \in Range(topics_returned[g2])}

\* C19 as stated: the textbooks of different grade levels have disjoint
\* key sets, and a topic returned for a later grade level is neither equal
\* to nor a near-duplicate of a topic returned for an earlier one,
\* whichever of the two is the first argument of is_similar.
C19_NoNearDuplicateLater ==
    /\ \A g1, g2 \in Assembled :
          g1 # g2 => DOMAIN TextbookAt(g1) \cap DOMAIN TextbookAt(g2) = {}
    /\ \A p \in AcrossGrades :
          /\ p[1] # p[2]
          /\ ~is_similar(p[2], p[1])
          /\ ~is_similar(p[1], p[2])

\* C19 as amended: the textbooks of different grade levels have disjoint
\* key sets; a topic returned by a call is never equal to a topic returned
\* before it, in the same or in another grade level, and is never similar
\* to one as the candidate of is_similar(candidate, accepted).
C19_GlobalDedup ==
    /\ \A g1, g2 \in Assembled :
          g1 # g2 => DOMAIN TextbookAt(g1) \cap DOMAIN TextbookAt(g2) = {}
    /\ \A p \in AcrossGrades :
          /\ p[1] # p[2]
          /\ ~is_similar(p[2], p[1])
    /\ \A g \in 1..Len(GradeLevels) :
          \A i, j \in 1..Len(topics_returned[g]) :
              i < j => /\ topics_returned[g][i] # topics_returned[g][j]
                       /\ ~is_similar(topics_returned[g][j],
                                      topics_returned[g][i])

\* a call for the second grade level was offered a topic returned for the
\* first, did not accept it and accepted another candidate
C19_Witness ==
    /\ pc = "while"
    /\ grade = 2
    /\ unique_topics # <<>>
    /\ \E i \in 1..Len(topics) :
          /\ topics[i] \in Range(topics_returned[1])
          /\ topics[i] \notin Range(unique_topics)

\* the slots of SEMAPHORE that are held
HeldSlots == SemaphoreSlots - semaphore

\* C20: the held slots are as many as the tasks between admission and
\* exit, and between 0 and the size of the gate; a task that leaves, by
\* returning or by raising, gives back one slot in that step; outside the
\* gathering of a batch, and so after every join, every slot is free.
C20_NoSlotLeak ==
    /\ [](HeldSlots = Cardinality(InFlight))
    /\ [](semaphore \in 0..SemaphoreSlots)
    /\ [](pc # "gather" => semaphore = SemaphoreSlots)
    /\ [][\A i \in 1..Len(tasks) :
             (tasks[i] = "in_flight" /\ tasks'[i] \in {"done", "failed"})
                 => semaphore' = semaphore + 1]_vars

\* a call has failed and its slot is free again while another task of the
\* batch holds one, after the batch of the first grade level was joined
C20_Witness ==
    /\ pc = "gather"
    /\ grade = 2
    /\ FailedTasks # {}
    /\ Cardinality(InFlight) = 1
    /\ HeldSlots = 1
====
